---- MODULE Spec2Model ----
(***************************************************************************)
(* Model of the intensity-transform kernels of vpImgproc.cpp (namespace    *)
(* vp): adjust, equalizeHistogram, gammaCorrection, stretchContrast,       *)
(* stretchContrastHSV and unsharpMask, each in its in-place and its copy   *)
(* form, for grayscale (unsigned char) and color (vpRGBa) images.          *)
(*                                                                         *)
(* An image is the sequence of its samples in bitmap order (one row of     *)
(* getWidth()*getHeight() pixels).  A grayscale sample is a byte, a color  *)
(* sample a record [R, G, B, A] of bytes.  Values of type double are exact *)
(* rationals <<numerator, denominator>>.                                   *)
(***************************************************************************)
EXTENDS Integers, Sequences, FiniteSets, TLC

(***************************************************************************)
(* Bounds of the model.                                                    *)
(***************************************************************************)
\* Largest number of pixels of an enumerated grayscale image.
MaxGrayPixels == 2
\* Largest number of pixels of an enumerated color image.
MaxColorPixels == 2

(***************************************************************************)
(* Bytes, and the arithmetic of vpMath on doubles.                         *)
(***************************************************************************)
Byte == 0..255

\* Marks a look-up table entry that the code never wrote (or wrote with the
\* undefined conversion of a NaN): no byte.
Undef == 0 - 1

\* The values an uninitialised byte of the stack array lut[256] may hold.
UninitBytes == {0, 77, 255}

Abs(x) == IF x < 0 THEN 0 - x ELSE x

RECURSIVE GCD(_, _)
GCD(a, b) == IF b = 0 THEN a ELSE GCD(b, a % b)

\* The rational n/d (d # 0) in lowest terms with a positive denominator.
Rat(n, d) ==
  LET g == GCD(Abs(n), Abs(d))
      s == IF d < 0 THEN 0 - 1 ELSE 1
  IN  <<(s * n) \div g, (s * d) \div g>>

RAdd(p, q) == Rat(p[1] * q[2] + q[1] * p[2], p[2] * q[2])
RSub(p, q) == Rat(p[1] * q[2] - q[1] * p[2], p[2] * q[2])
RMul(p, q) == Rat(p[1] * q[1], p[2] * q[2])
RDiv(p, q) == Rat(p[1] * q[2], p[2] * q[1])
RLess(p, q) == p[1] * q[2] < q[1] * p[2]
RInt(n) == <<n, 1>>

\* (int) x : conversion of a double to int truncates toward zero.
Trunc(q) == IF q[1] >= 0 THEN q[1] \div q[2] ELSE 0 - ((0 - q[1]) \div q[2])

\* vpMath::round(double): the nearest integer, halves away from zero.
round(q) ==
  IF q[1] >= 0
    THEN (2 * q[1] + q[2]) \div (2 * q[2])
    ELSE 0 - ((2 * (0 - q[1]) + q[2]) \div (2 * q[2]))

\* vpMath::saturate<unsigned char>(double): round, then clamp into [0, 255].
saturate(q) ==
  LET iv == round(q)
  IN  IF iv < 0 THEN 0 ELSE IF iv > 255 THEN 255 ELSE iv

Min(S) == CHOOSE x \in S : \A y \in S : x <= y
Max(S) == CHOOSE x \in S : \A y \in S : x >= y

(***************************************************************************)
(* Images.                                                                 *)
(***************************************************************************)
\* I.getWidth()*I.getHeight(), I.getSize()
getSize(I) == Len(I)

\* vpImage<unsigned char>::getMinMaxValue on a non-empty image.
getMinValue(I) == Min({I[k] : k \in 1..Len(I)})
getMaxValue(I) == Max({I[k] : k \in 1..Len(I)})

\* vpImage<unsigned char>::performLut(lut): every sample x becomes lut[x].
\* An entry the kernel left unwritten holds whatever the stack held: one
\* value per entry, any of UninitBytes.  The result is the set of images the
\* build can produce.
performLut(I, lut) ==
  LET used == {I[k] : k \in 1..Len(I)}
      open == {x \in used : lut[x] = Undef}
  IN  { [k \in 1..Len(I) |->
           IF lut[I[k]] = Undef THEN g[I[k]] ELSE lut[I[k]]] :
        g \in [open -> UninitBytes] }

\* vpImage<vpRGBa>::performLut(lut): each byte of the pixel goes through
\* the table of its own channel.
performLutRGBa(I, lut) ==
  LET usedR == {I[k].R : k \in 1..Len(I)}
      usedG == {I[k].G : k \in 1..Len(I)}
      usedB == {I[k].B : k \in 1..Len(I)}
      usedA == {I[k].A : k \in 1..Len(I)}
      openR == {x \in usedR : lut[x].R = Undef}
      openG == {x \in usedG : lut[x].G = Undef}
      openB == {x \in usedB : lut[x].B = Undef}
      openA == {x \in usedA : lut[x].A = Undef}
      via(t, o, x) == IF t = Undef THEN o[x] ELSE t
  IN  { [k \in 1..Len(I) |->
           [R |-> via(lut[I[k].R].R, gR, I[k].R),
            G |-> via(lut[I[k].G].G, gG, I[k].G),
            B |-> via(lut[I[k].B].B, gB, I[k].B),
            A |-> via(lut[I[k].A].A, gA, I[k].A)]] :
        gR \in [openR -> UninitBytes], gG \in [openG -> UninitBytes],
        gB \in [openB -> UninitBytes], gA \in [openA -> UninitBytes] }

\* vpImageConvert::split(I, &pR, &pG, &pB, &pa): the four planes of I.
split(I) ==
  [R |-> [k \in 1..Len(I) |-> I[k].R],
   G |-> [k \in 1..Len(I) |-> I[k].G],
   B |-> [k \in 1..Len(I) |-> I[k].B],
   A |-> [k \in 1..Len(I) |-> I[k].A]]

\* The merge loop: pixel cpt of the result takes its bytes from the planes.
merge(pR, pG, pB, pa) ==
  [cpt \in 1..Len(pR) |->
     [R |-> pR[cpt], G |-> pG[cpt], B |-> pB[cpt], A |-> pa[cpt]]]

\* I2 = I1 : the output takes the dimensions and the samples of the input.
Assign(dst, src) == src

\* The result of a call: how it ended, and the image it leaves in the buffer
\* it was given.
Ok(I) == [outcome |-> "ok", I |-> I, blurs |-> 0]
BadValue(I) == [outcome |-> "badValue", I |-> I, blurs |-> 0]


(***************************************************************************)
(* Grayscale kernels.  Each yields the set of results the call can have.   *)
(***************************************************************************)
\* The table of adjust: lut[i] = saturate(alpha * i + beta).
adjustLut(alpha, beta) ==
  [i \in Byte |-> saturate(RAdd(RMul(alpha, RInt(i)), beta))]

\* vp::adjust(vpImage<unsigned char> &I, alpha, beta)
adjust(I, alpha, beta) ==
  {Ok(J) : J \in performLut(I, adjustLut(alpha, beta))}

\* vp::adjust(const vpImage<unsigned char> &I1, vpImage<unsigned char> &I2, ...)
adjustCopy(I1, I2, alpha, beta) ==
  adjust(Assign(I2, I1), alpha, beta)

\* hist.calculate(I), then cdf[0] = hist[0]; cdf[i] = cdf[i-1] + hist[i]:
\* the running sum of the histogram of I, which at bin i is the number of
\* samples that are at most i.
cdfOf(I) ==
  [i \in Byte |-> Cardinality({k \in 1..Len(I) : I[k] <= i})]

\* NoBin stands for std::numeric_limits<unsigned int>::max(), the value
\* cdfMin and minValue start with: above every count and every bin.
NoBin == 2147483647

\* The scan of the loop over i = 1 .. 255 (bin 0 is not visited): cdfMin is
\* the smallest positive cdf[i] and minValue the first bin reaching it,
\* cdfMax the largest cdf[i] and maxValue the first bin reaching it (both
\* comparisons of the loop are strict).
scan(cdf) ==
  LET positive == {i \in 1..255 : cdf[i] > 0}
      cdfMin == IF positive = {} THEN NoBin
                ELSE Min({cdf[i] : i \in positive})
      cdfMax == Max({0} \cup {cdf[i] : i \in 1..255})
  IN  [cdfMin |-> cdfMin,
       minValue |-> IF positive = {} THEN NoBin
                    ELSE Min({i \in positive : cdf[i] = cdfMin}),
       cdfMax |-> cdfMax,
       maxValue |-> IF cdfMax = 0 THEN 0
                    ELSE Min({i \in 1..255 : cdf[i] = cdfMax})]

\* nbPixels - cdfMin, the divisor of the table entries.
equalizeDivisor(I) ==
  getSize(I) - scan(cdfOf(I)).cdfMin

\* The table of equalizeHistogram: written for x in [minValue, maxValue]
\* only.  With a zero divisor the quotient 0 / 0.0 is a NaN, whose
\* conversion to an integer is undefined: the entry holds any byte.
equalizeLut(I) ==
  LET cdf == cdfOf(I)
      s == scan(cdf)
      nbPixels == getSize(I)
  IN  [x \in Byte |->
         IF x < s.minValue \/ x > s.maxValue THEN Undef
         ELSE IF nbPixels - s.cdfMin = 0 THEN Undef
         ELSE round(Rat((cdf[x] - s.cdfMin) * 255,
                        nbPixels - s.cdfMin)) % 256]

\* vp::equalizeHistogram(vpImage<unsigned char> &I)
equalizeHistogram(I) ==
  IF getSize(I) = 0 THEN {Ok(I)}
  ELSE {Ok(J) : J \in performLut(I, equalizeLut(I))}

\* The copy form without its copy: the kernel runs on what I2 held.
equalizeHistogramCopy_NoCopy(I1, I2) ==
  equalizeHistogram(I2)

\* vp::equalizeHistogram(const vpImage<unsigned char> &I1, vpImage<unsigned char> &I2)
equalizeHistogramCopy(I1, I2) ==
  equalizeHistogram(Assign(I2, I1))

\* The largest r with r * r <= m.
isqrt(m) == CHOOSE r \in 0..255 : r * r <= m /\ m < (r + 1) * (r + 1)

\* saturate(pow(i / 255.0, inverse_gamma) * 255.0) for the exponents of the
\* model: 1 (the identity), 2 (a square) and 1/2 (a square root).
gammaEntry(i, inverse_gamma) ==
  CASE inverse_gamma = <<1, 1>> -> saturate(RInt(i))
    [] inverse_gamma = <<2, 1>> -> saturate(Rat(i * i, 255))
    [] inverse_gamma = <<1, 2>> ->
         LET m == 255 * i
             r == isqrt(m)
         IN  IF m > r * r + r THEN r + 1 ELSE r

gammaLut(inverse_gamma) == [i \in Byte |-> gammaEntry(i, inverse_gamma)]

\* gammaCorrection without its throw: a gamma that is not positive leaves
\* inverse_gamma at its initial 1.0 and the table is applied.
gammaCorrection_NoThrow(I, gamma) ==
  LET inverse_gamma == IF gamma[1] > 0 THEN RDiv(RInt(1), gamma) ELSE <<1, 1>>
  IN  {Ok(J) : J \in performLut(I, gammaLut(inverse_gamma))}

\* vp::gammaCorrection(vpImage<unsigned char> &I, gamma)
gammaCorrection(I, gamma) ==
  IF gamma[1] > 0
    THEN {Ok(J) : J \in performLut(I, gammaLut(RDiv(RInt(1), gamma)))}
    ELSE {BadValue(I)}

\* vp::gammaCorrection(const vpImage<unsigned char> &I1, vpImage<unsigned char> &I2, gamma)
gammaCorrectionCopy(I1, I2, gamma) ==
  gammaCorrection(Assign(I2, I1), gamma)

\* The table of stretchContrast with the quotient rounded to nearest.
stretchLut_Rounded(min, max) ==
  LET range == (max - min) % 256
  IN  IF range > 0
        THEN [x \in Byte |->
                IF x < min \/ x > max THEN Undef
                ELSE round(Rat(255 * (x - min), range)) % 256]
        ELSE [x \in Byte |-> IF x = min THEN min ELSE Undef]

\* The table of stretchContrast, from the extremes of the image.
stretchLut(min, max) ==
  LET range == (max - min) % 256
  IN  IF range > 0
        THEN [x \in Byte |->
                IF x < min \/ x > max THEN Undef
                ELSE ((255 * (x - min)) \div range) % 256]
        ELSE [x \in Byte |-> IF x = min THEN min ELSE Undef]

\* vp::stretchContrast(vpImage<unsigned char> &I), I not empty.
stretchContrast(I) ==
  {Ok(J) : J \in performLut(I, stretchLut(getMinValue(I), getMaxValue(I)))}

\* vp::stretchContrast(const vpImage<unsigned char> &I1, vpImage<unsigned char> &I2)
stretchContrastCopy(I1, I2) ==
  stretchContrast(Assign(I2, I1))

\* The weights of the blur kernel of `size` taps, and their sum: the
\* binomial weights, by which the model stands for the normalised Gaussian
\* kernel of vpImageFilter.
kernelWeights(size) ==
  CASE size = 1 -> <<1>>
    [] size = 3 -> <<1, 2, 1>>

kernelSum(size) ==
  CASE size = 1 -> 1
    [] size = 3 -> 4

\* The sample a tap at position j reads: borders are mirrored.
mirror(j, n) ==
  IF n = 1 THEN 1
  ELSE IF j < 1 THEN 2 - j
  ELSE IF j > n THEN 2 * n - j
  ELSE j

\* vpImageFilter::gaussianBlur(I, I_blurred, size): a plane of doubles of
\* the dimensions of I.
gaussianBlur(I, size) ==
  LET n == Len(I)
      w == kernelWeights(size)
      half == (size - 1) \div 2
      tap(k, t) == w[t] * I[mirror(k + t - 1 - half, n)]
      sum(k) == IF size = 1 THEN tap(k, 1)
                ELSE tap(k, 1) + tap(k, 2) + tap(k, 3)
  IN  [k \in 1..n |-> Rat(sum(k), kernelSum(size))]

\* (I.bitmap[cpt] - weight * I_blurred.bitmap[cpt]) / (1 - weight), saturated.
unsharpValue(x, blurred, weight) ==
  saturate(RDiv(RSub(RInt(x), RMul(weight, blurred)),
                RSub(RInt(1), weight)))

\* unsharpMask with the test weight >= 0.0 left out.
unsharpMask_NoLowerBound(I, size, weight) ==
  IF RLess(weight, RInt(1))
    THEN LET I_blurred == gaussianBlur(I, size)
         IN  {[outcome |-> "ok", blurs |-> 1,
               I |-> [cpt \in 1..Len(I) |->
                        unsharpValue(I[cpt], I_blurred[cpt], weight)]]}
    ELSE {Ok(I)}

\* vp::unsharpMask(vpImage<unsigned char> &I, size, weight)
unsharpMask(I, size, weight) ==
  IF RLess(weight, RInt(1)) /\ ~RLess(weight, RInt(0))
    THEN LET I_blurred == gaussianBlur(I, size)
         IN  {[outcome |-> "ok", blurs |-> 1,
               I |-> [cpt \in 1..Len(I) |->
                        unsharpValue(I[cpt], I_blurred[cpt], weight)]]}
    ELSE {Ok(I)}

\* vp::unsharpMask(const vpImage<unsigned char> &I1, vpImage<unsigned char> &I2, size, weight)
unsharpMaskCopy(I1, I2, size, weight) ==
  unsharpMask(Assign(I2, I1), size, weight)


(***************************************************************************)
(* Color kernels.                                                          *)
(***************************************************************************)
\* vp::adjust(vpImage<vpRGBa> &I, alpha, beta)
adjustRGBa(I, alpha, beta) ==
  LET lut == [i \in Byte |->
                [R |-> saturate(RAdd(RMul(alpha, RInt(i)), beta)),
                 G |-> saturate(RAdd(RMul(alpha, RInt(i)), beta)),
                 B |-> saturate(RAdd(RMul(alpha, RInt(i)), beta)),
                 A |-> saturate(RAdd(RMul(alpha, RInt(i)), beta))]]
  IN  {Ok(J) : J \in performLutRGBa(I, lut)}

\* vp::adjust(const vpImage<vpRGBa> &I1, vpImage<vpRGBa> &I2, alpha, beta)
adjustRGBaCopy(I1, I2, alpha, beta) ==
  adjustRGBa(Assign(I2, I1), alpha, beta)

\* vp::gammaCorrection(vpImage<vpRGBa> &I, gamma)
gammaCorrectionRGBa(I, gamma) ==
  IF gamma[1] > 0
    THEN LET inverse_gamma == RDiv(RInt(1), gamma)
             lut == [i \in Byte |->
                       [R |-> gammaEntry(i, inverse_gamma),
                        G |-> gammaEntry(i, inverse_gamma),
                        B |-> gammaEntry(i, inverse_gamma),
                        A |-> gammaEntry(i, inverse_gamma)]]
         IN  {Ok(J) : J \in performLutRGBa(I, lut)}
    ELSE {BadValue(I)}

\* vp::gammaCorrection(const vpImage<vpRGBa> &I1, vpImage<vpRGBa> &I2, gamma)
gammaCorrectionRGBaCopy(I1, I2, gamma) ==
  gammaCorrectionRGBa(Assign(I2, I1), gamma)

\* One channel of the table of the color stretchContrast.
stretchEntry(x, min, max) ==
  LET range == (max - min) % 256
  IN  IF range > 0
        THEN IF x < min \/ x > max THEN Undef
             ELSE ((255 * (x - min)) \div range) % 256
        ELSE IF x = min THEN min ELSE Undef

\* stretchContrast on a color image with one minimum and one maximum taken
\* over all four channels.
stretchContrastRGBa_GlobalMinMax(I) ==
  LET p == split(I)
      all == p.R \o p.G \o p.B \o p.A
      min == getMinValue(all)
      max == getMaxValue(all)
      lut == [x \in Byte |->
                [R |-> stretchEntry(x, min, max),
                 G |-> stretchEntry(x, min, max),
                 B |-> stretchEntry(x, min, max),
                 A |-> stretchEntry(x, min, max)]]
  IN  {Ok(J) : J \in performLutRGBa(I, lut)}

\* vp::stretchContrast(vpImage<vpRGBa> &I), I not empty.
stretchContrastRGBa(I) ==
  LET p == split(I)
      min == [R |-> getMinValue(p.R), G |-> getMinValue(p.G),
              B |-> getMinValue(p.B), A |-> getMinValue(p.A)]
      max == [R |-> getMaxValue(p.R), G |-> getMaxValue(p.G),
              B |-> getMaxValue(p.B), A |-> getMaxValue(p.A)]
      lut == [x \in Byte |->
                [R |-> stretchEntry(x, min.R, max.R),
                 G |-> stretchEntry(x, min.G, max.G),
                 B |-> stretchEntry(x, min.B, max.B),
                 A |-> stretchEntry(x, min.A, max.A)]]
  IN  {Ok(J) : J \in performLutRGBa(I, lut)}

\* vp::stretchContrast(const vpImage<vpRGBa> &I1, vpImage<vpRGBa> &I2)
stretchContrastRGBaCopy(I1, I2) ==
  stretchContrastRGBa(Assign(I2, I1))

\* unsharpMask on a color image with the alpha plane sharpened like the
\* other three.
unsharpMaskRGBa_WithAlpha(I, size, weight) ==
  IF RLess(weight, RInt(1)) /\ ~RLess(weight, RInt(0))
    THEN LET p == split(I)
             I_blurred_R == gaussianBlur(p.R, size)
             I_blurred_G == gaussianBlur(p.G, size)
             I_blurred_B == gaussianBlur(p.B, size)
             I_blurred_A == gaussianBlur(p.A, size)
         IN  {[outcome |-> "ok", blurs |-> 4,
               I |-> [cpt \in 1..Len(I) |->
                        [R |-> unsharpValue(I[cpt].R, I_blurred_R[cpt], weight),
                         G |-> unsharpValue(I[cpt].G, I_blurred_G[cpt], weight),
                         B |-> unsharpValue(I[cpt].B, I_blurred_B[cpt], weight),
                         A |-> unsharpValue(I[cpt].A, I_blurred_A[cpt], weight)]]]}
    ELSE {Ok(I)}

\* vp::unsharpMask(vpImage<vpRGBa> &I, size, weight): the planes R, G and B
\* are split off and blurred; the A byte of a pixel is not written.
unsharpMaskRGBa(I, size, weight) ==
  IF RLess(weight, RInt(1)) /\ ~RLess(weight, RInt(0))
    THEN LET p == split(I)
             I_blurred_R == gaussianBlur(p.R, size)
             I_blurred_G == gaussianBlur(p.G, size)
             I_blurred_B == gaussianBlur(p.B, size)
         IN  {[outcome |-> "ok", blurs |-> 3,
               I |-> [cpt \in 1..Len(I) |->
                        [R |-> unsharpValue(I[cpt].R, I_blurred_R[cpt], weight),
                         G |-> unsharpValue(I[cpt].G, I_blurred_G[cpt], weight),
                         B |-> unsharpValue(I[cpt].B, I_blurred_B[cpt], weight),
                         A |-> I[cpt].A]]]}
    ELSE {Ok(I)}

\* vp::unsharpMask(const vpImage<vpRGBa> &I1, vpImage<vpRGBa> &I2, size, weight)
unsharpMaskRGBaCopy(I1, I2, size, weight) ==
  unsharpMaskRGBa(Assign(I2, I1), size, weight)


(***************************************************************************)
(* HSV color space (vpImageConvert).                                       *)
(***************************************************************************)
RMax2(p, q) == IF RLess(p, q) THEN q ELSE p
RMin2(p, q) == IF RLess(q, p) THEN q ELSE p

\* vpImage<double>::getMinMaxValue on a non-empty plane.
getMinValueD(P) ==
  LET S == {P[k] : k \in 1..Len(P)}
  IN  CHOOSE x \in S : \A y \in S : ~RLess(y, x)
getMaxValueD(P) ==
  LET S == {P[k] : k \in 1..Len(P)}
  IN  CHOOSE x \in S : \A y \in S : ~RLess(x, y)

\* vpImageConvert::RGBaToHSV of one pixel, in doubles: hue, saturation and
\* value in [0, 1].  The alpha byte is not read.
RGBaToHSVPixel(px) ==
  LET red == Rat(px.R, 255)
      green == Rat(px.G, 255)
      blue == Rat(px.B, 255)
      max == IF RLess(green, red) THEN RMax2(red, blue) ELSE RMax2(green, blue)
      min == IF RLess(green, red) THEN RMin2(green, blue) ELSE RMin2(red, blue)
      s == IF max # <<0, 1>> THEN RDiv(RSub(max, min), max) ELSE <<0, 1>>
      delta == RSub(max, min)
      h6 == IF red = max THEN RDiv(RSub(green, blue), delta)
            ELSE IF green = max THEN RAdd(RInt(2), RDiv(RSub(blue, red), delta))
            ELSE RAdd(RInt(4), RDiv(RSub(red, green), delta))
      h1 == RDiv(h6, RInt(6))
      h == IF s = <<0, 1>> THEN <<0, 1>>
           ELSE IF RLess(h1, RInt(0)) THEN RAdd(h1, RInt(1)) ELSE h1
  IN  [h |-> h, s |-> s, v |-> max]

\* vpImageConvert::HSVToRGBa of one pixel, in doubles: the bytes R, G, B.
HSVToRGBaPixel(hue, saturation, value) ==
  LET h0 == RMul(hue, RInt(6))
      h == IF h0 = <<6, 1>> THEN <<0, 1>> ELSE h0
      f == RSub(h, RInt(Trunc(h)))
      p == RMul(value, RSub(RInt(1), saturation))
      q == RMul(value, RSub(RInt(1), RMul(saturation, f)))
      t == RMul(value, RSub(RInt(1), RMul(saturation, RSub(RInt(1), f))))
      i == Trunc(h)
      rgb == IF saturation = <<0, 1>> THEN <<value, value, value>>
             ELSE CASE i = 0 -> <<value, t, p>>
                    [] i = 1 -> <<q, value, p>>
                    [] i = 2 -> <<p, value, t>>
                    [] i = 3 -> <<p, q, value>>
                    [] i = 4 -> <<t, p, value>>
                    [] OTHER -> <<value, p, q>>
      byte(x) == round(RMul(x, RInt(255))) % 256
  IN  [R |-> byte(rgb[1]), G |-> byte(rgb[2]), B |-> byte(rgb[3])]

\* HSVToRGBa over planes, into the bitmap of I: the bytes R, G and B of
\* every pixel are written, the byte A keeps what the bitmap held.
HSVToRGBa(hue, saturation, value, I) ==
  [k \in 1..Len(I) |->
     LET c == HSVToRGBaPixel(hue[k], saturation[k], value[k])
     IN  [R |-> c.R, G |-> c.G, B |-> c.B, A |-> I[k].A]]

\* The unsigned char variants: each of h, s, v is stored as
\* (unsigned char)(255.0 * x) and read back as x / 255.0.
RGBaToHSVBytes(I) ==
  [hue |-> [k \in 1..Len(I) |->
              Trunc(RMul(RInt(255), RGBaToHSVPixel(I[k]).h)) % 256],
   saturation |-> [k \in 1..Len(I) |->
              Trunc(RMul(RInt(255), RGBaToHSVPixel(I[k]).s)) % 256],
   value |-> [k \in 1..Len(I) |->
              Trunc(RMul(RInt(255), RGBaToHSVPixel(I[k]).v)) % 256]]

HSVBytesToRGBa(hue, saturation, value, I) ==
  HSVToRGBa([k \in 1..Len(I) |-> Rat(hue[k], 255)],
            [k \in 1..Len(I) |-> Rat(saturation[k], 255)],
            [k \in 1..Len(I) |-> Rat(value[k], 255)], I)

\* equalizeHistogram on a color image with the plane pa equalized as well.
equalizeHistogramRGBa_WithAlpha(I, useHSV) ==
  IF getSize(I) = 0 THEN {Ok(I)}
  ELSE IF ~useHSV
    THEN LET p == split(I)
         IN  {Ok(merge(pR.I, pG.I, pB.I, pa.I)) :
                pR \in equalizeHistogramCopy(p.R, p.R),
                pG \in equalizeHistogramCopy(p.G, p.G),
                pB \in equalizeHistogramCopy(p.B, p.B),
                pa \in equalizeHistogramCopy(p.A, p.A)}
    ELSE LET c == RGBaToHSVBytes(I)
         IN  {Ok(HSVBytesToRGBa(c.hue, c.saturation, value.I, I)) :
                value \in equalizeHistogram(c.value)}

\* vp::equalizeHistogram(vpImage<vpRGBa> &I, useHSV)
equalizeHistogramRGBa(I, useHSV) ==
  IF getSize(I) = 0 THEN {Ok(I)}
  ELSE IF ~useHSV
    THEN LET p == split(I)
         IN  {Ok(merge(pR.I, pG.I, pB.I, p.A)) :
                pR \in equalizeHistogramCopy(p.R, p.R),
                pG \in equalizeHistogramCopy(p.G, p.G),
                pB \in equalizeHistogramCopy(p.B, p.B)}
    ELSE LET c == RGBaToHSVBytes(I)
         IN  {Ok(HSVBytesToRGBa(c.hue, c.saturation, value.I, I)) :
                value \in equalizeHistogram(c.value)}

\* vp::equalizeHistogram(const vpImage<vpRGBa> &I1, vpImage<vpRGBa> &I2, useHSV)
equalizeHistogramRGBaCopy(I1, I2, useHSV) ==
  equalizeHistogramRGBa(Assign(I2, I1), useHSV)

\* The locals of stretchContrastHSV while no call of it is running.
NoLocals ==
  [hueImage |-> <<>>, saturationImage |-> <<>>, valueImage |-> <<>>,
   minSaturation |-> <<0, 1>>, maxSaturation |-> <<0, 1>>,
   minValue |-> <<0, 1>>, maxValue |-> <<0, 1>>]

\* stretchContrastHSV, first part: the three planes of doubles and the
\* extremes of the saturation and value planes (I not empty).
hsvConvert(I) ==
  LET hueImage == [k \in 1..Len(I) |-> RGBaToHSVPixel(I[k]).h]
      saturationImage == [k \in 1..Len(I) |-> RGBaToHSVPixel(I[k]).s]
      valueImage == [k \in 1..Len(I) |-> RGBaToHSVPixel(I[k]).v]
  IN  [hueImage |-> hueImage, saturationImage |-> saturationImage,
       valueImage |-> valueImage,
       minSaturation |-> getMinValueD(saturationImage),
       maxSaturation |-> getMaxValueD(saturationImage),
       minValue |-> getMinValueD(valueImage),
       maxValue |-> getMaxValueD(valueImage)]

\* (*ptrCurrent - min) / (max - min) over a plane.
rescale(P, min, max) ==
  [k \in 1..Len(P) |-> RDiv(RSub(P[k], min), RSub(max, min))]

\* "Stretch Saturation" with ptrStart set to hueImage.bitmap: the rescaled
\* samples land in the hue plane.
hsvStretchSaturation_ThroughHue(l) ==
  IF RLess(RInt(0), RSub(l.maxSaturation, l.minSaturation))
    THEN [l EXCEPT !.hueImage =
            rescale(l.saturationImage, l.minSaturation, l.maxSaturation)]
    ELSE l

\* "Stretch Saturation": the saturation plane, when its range is positive.
hsvStretchSaturation(l) ==
  IF RLess(RInt(0), RSub(l.maxSaturation, l.minSaturation))
    THEN [l EXCEPT !.saturationImage =
            rescale(l.saturationImage, l.minSaturation, l.maxSaturation)]
    ELSE l

\* The value plane, when its range is positive.
hsvStretchValue(l) ==
  IF RLess(RInt(0), RSub(l.maxValue, l.minValue))
    THEN [l EXCEPT !.valueImage =
            rescale(l.valueImage, l.minValue, l.maxValue)]
    ELSE l

\* "Convert HSV to RGBa": back into the bitmap of I.
hsvConvertBack(l, I) ==
  HSVToRGBa(l.hueImage, l.saturationImage, l.valueImage, I)

\* vp::stretchContrastHSV(vpImage<vpRGBa> &I), start to end.
stretchContrastHSV(I) ==
  {Ok(hsvConvertBack(hsvStretchValue(hsvStretchSaturation(hsvConvert(I))), I))}

\* vp::stretchContrastHSV(const vpImage<vpRGBa> &I1, vpImage<vpRGBa> &I2)
stretchContrastHSVCopy(I1, I2) ==
  stretchContrastHSV(Assign(I2, I1))


(***************************************************************************)
(* The caller: an image I, an output buffer I2, and one call.              *)
(***************************************************************************)
VARIABLES
  kind,     \* "gray": vpImage<unsigned char>;  "color": vpImage<vpRGBa>
  I,        \* the image given to the in-place form, I1 of the copy form
  I2,       \* the output buffer of the copy form
  call,     \* the call made: the operation and its arguments at entry
  outcome,  \* "none" before the call returns, then "ok" or "badValue"
  pc,       \* "idle", the places inside stretchContrastHSV, "done"
  hsv,      \* the locals of a running stretchContrastHSV
  blurs     \* calls of vpImageFilter::gaussianBlur made by the call

vars == <<kind, I, I2, call, outcome, pc, hsv, blurs>>

\* Sample values of the enumerated grayscale images.
Samples == {0, 10, 77, 200, 255}

SeqsUpTo(S, n) == UNION {[1..m -> S] : m \in 0..n}

GrayImages ==
  SeqsUpTo(Samples, MaxGrayPixels)
    \cup {<<10, 10, 10, 200>>, <<77, 77, 77>>, <<10, 77, 200>>}

RGBa(r, g, b, a) == [R |-> r, G |-> g, B |-> b, A |-> a]

ColorPixels ==
  {RGBa(0, 0, 0, 255), RGBa(200, 10, 77, 10), RGBa(10, 200, 77, 200),
   RGBa(77, 77, 77, 77), RGBa(255, 0, 10, 0)}

ColorImages == SeqsUpTo(ColorPixels, MaxColorPixels)

\* What the output buffer may hold before the call.
GrayOutputs == {<<>>, <<200, 10, 77>>}
ColorOutputs == {<<>>, <<RGBa(1, 2, 3, 4), RGBa(5, 6, 7, 8), RGBa(9, 9, 9, 9)>>}

\* Arguments of the calls.
Alphas == {<<1, 1>>, <<3, 2>>, <<0 - 1, 1>>}
Betas == {<<0, 1>>, <<10, 1>>, <<300, 1>>}
Gammas == {<<0 - 1, 1>>, <<0, 1>>, <<1, 2>>, <<1, 1>>, <<2, 1>>}
Sizes == {1, 3}
Weights == {<<0 - 1, 2>>, <<0, 1>>, <<1, 2>>, <<1, 1>>}
CopyForms == {"copy", "alias"}

NoCall ==
  [op |-> "none", form |-> "none", I |-> <<>>, I2 |-> <<>>,
   alpha |-> <<1, 1>>, beta |-> <<0, 1>>, gamma |-> <<1, 1>>,
   size |-> 1, weight |-> <<0, 1>>, useHSV |-> FALSE]

\* The call of `op` in `form` on the buffers as they are now.
Call(op, form) == [NoCall EXCEPT !.op = op, !.form = form, !.I = I, !.I2 = I2]

\* The second argument of a copy form: I2, or I itself when the output
\* aliases the input.
Out(form) == IF form = "alias" THEN I ELSE I2

Init ==
  /\ pc = "idle"
  /\ outcome = "none"
  /\ call = NoCall
  /\ hsv = NoLocals
  /\ blurs = 0
  /\ \/ kind = "gray" /\ I \in GrayImages /\ I2 \in GrayOutputs
     \/ kind = "color" /\ I \in ColorImages /\ I2 \in ColorOutputs

\* The call c returns with one of the results R: the result image is in the
\* buffer the kernel worked on.
Return(c, R) ==
  \E r \in R :
    /\ call' = c
    /\ outcome' = r.outcome
    /\ blurs' = r.blurs
    /\ pc' = "done"
    /\ IF c.form = "copy"
         THEN I2' = r.I /\ I' = I
         ELSE I' = r.I /\ I2' = I2
    /\ UNCHANGED <<kind, hsv>>

Idle(k) == pc = "idle" /\ kind = k

CallAdjust ==
  /\ Idle("gray")
  /\ \E alpha \in Alphas, beta \in Betas :
       Return([Call("adjust", "inplace") EXCEPT !.alpha = alpha, !.beta = beta],
              adjust(I, alpha, beta))

CallAdjustCopy ==
  /\ Idle("gray")
  /\ \E alpha \in Alphas, beta \in Betas, form \in CopyForms :
       Return([Call("adjust", form) EXCEPT !.alpha = alpha, !.beta = beta],
              adjustCopy(I, Out(form), alpha, beta))

CallAdjustRGBa ==
  /\ Idle("color")
  /\ \E alpha \in Alphas, beta \in Betas :
       Return([Call("adjust", "inplace") EXCEPT !.alpha = alpha, !.beta = beta],
              adjustRGBa(I, alpha, beta))

CallAdjustRGBaCopy ==
  /\ Idle("color")
  /\ \E alpha \in Alphas, beta \in Betas, form \in CopyForms :
       Return([Call("adjust", form) EXCEPT !.alpha = alpha, !.beta = beta],
              adjustRGBaCopy(I, Out(form), alpha, beta))

CallEqualizeHistogram ==
  /\ Idle("gray")
  /\ Return(Call("equalizeHistogram", "inplace"), equalizeHistogram(I))

CallEqualizeHistogramCopy ==
  /\ Idle("gray")
  /\ \E form \in CopyForms :
       Return(Call("equalizeHistogram", form),
              equalizeHistogramCopy(I, Out(form)))

CallEqualizeHistogramRGBa ==
  /\ Idle("color")
  /\ \E useHSV \in BOOLEAN :
       Return([Call("equalizeHistogram", "inplace") EXCEPT !.useHSV = useHSV],
              equalizeHistogramRGBa(I, useHSV))

CallEqualizeHistogramRGBaCopy ==
  /\ Idle("color")
  /\ \E useHSV \in BOOLEAN, form \in CopyForms :
       Return([Call("equalizeHistogram", form) EXCEPT !.useHSV = useHSV],
              equalizeHistogramRGBaCopy(I, Out(form), useHSV))

CallGammaCorrection ==
  /\ Idle("gray")
  /\ \E gamma \in Gammas :
       Return([Call("gammaCorrection", "inplace") EXCEPT !.gamma = gamma],
              gammaCorrection(I, gamma))

CallGammaCorrectionCopy ==
  /\ Idle("gray")
  /\ \E gamma \in Gammas, form \in CopyForms :
       Return([Call("gammaCorrection", form) EXCEPT !.gamma = gamma],
              gammaCorrectionCopy(I, Out(form), gamma))

CallGammaCorrectionRGBa ==
  /\ Idle("color")
  /\ \E gamma \in Gammas :
       Return([Call("gammaCorrection", "inplace") EXCEPT !.gamma = gamma],
              gammaCorrectionRGBa(I, gamma))

CallGammaCorrectionRGBaCopy ==
  /\ Idle("color")
  /\ \E gamma \in Gammas, form \in CopyForms :
       Return([Call("gammaCorrection", form) EXCEPT !.gamma = gamma],
              gammaCorrectionRGBaCopy(I, Out(form), gamma))

\* The stretchContrast family is called on images that have a pixel: what
\* getMinMaxValue yields on an empty image is decided outside these kernels.
CallStretchContrast ==
  /\ Idle("gray")
  /\ getSize(I) > 0
  /\ Return(Call("stretchContrast", "inplace"), stretchContrast(I))

CallStretchContrastCopy ==
  /\ Idle("gray")
  /\ getSize(I) > 0
  /\ \E form \in CopyForms :
       Return(Call("stretchContrast", form),
              stretchContrastCopy(I, Out(form)))

CallStretchContrastRGBa ==
  /\ Idle("color")
  /\ getSize(I) > 0
  /\ Return(Call("stretchContrast", "inplace"), stretchContrastRGBa(I))

CallStretchContrastRGBaCopy ==
  /\ Idle("color")
  /\ getSize(I) > 0
  /\ \E form \in CopyForms :
       Return(Call("stretchContrast", form),
              stretchContrastRGBaCopy(I, Out(form)))

CallUnsharpMask ==
  /\ Idle("gray")
  /\ \E size \in Sizes, weight \in Weights :
       Return([Call("unsharpMask", "inplace") EXCEPT !.size = size, !.weight = weight],
              unsharpMask(I, size, weight))

CallUnsharpMaskCopy ==
  /\ Idle("gray")
  /\ \E size \in Sizes, weight \in Weights, form \in CopyForms :
       Return([Call("unsharpMask", form) EXCEPT !.size = size, !.weight = weight],
              unsharpMaskCopy(I, Out(form), size, weight))

CallUnsharpMaskRGBa ==
  /\ Idle("color")
  /\ \E size \in Sizes, weight \in Weights :
       Return([Call("unsharpMask", "inplace") EXCEPT !.size = size, !.weight = weight],
              unsharpMaskRGBa(I, size, weight))

CallUnsharpMaskRGBaCopy ==
  /\ Idle("color")
  /\ \E size \in Sizes, weight \in Weights, form \in CopyForms :
       Return([Call("unsharpMask", form) EXCEPT !.size = size, !.weight = weight],
              unsharpMaskRGBaCopy(I, Out(form), size, weight))


\* stretchContrastHSV runs in four steps, its planes being observable
\* between the two conversions.  The buffer it works on:
Target == IF call.form = "copy" THEN I2 ELSE I

\* Entry of the in-place form, up to the extremes of the planes.
CallStretchContrastHSV ==
  /\ Idle("color")
  /\ getSize(I) > 0
  /\ call' = Call("stretchContrastHSV", "inplace")
  /\ hsv' = hsvConvert(I)
  /\ pc' = "converted"
  /\ UNCHANGED <<kind, I, I2, outcome, blurs>>

\* Entry of the copy form: I2 = I1, then as the in-place form on I2.
CallStretchContrastHSVCopy ==
  /\ Idle("color")
  /\ getSize(I) > 0
  /\ \E form \in CopyForms :
       /\ call' = Call("stretchContrastHSV", form)
       /\ IF form = "copy"
            THEN I2' = Assign(I2, I) /\ I' = I
            ELSE I' = Assign(I, I) /\ I2' = I2
       /\ hsv' = hsvConvert(Assign(Out(form), I))
  /\ pc' = "converted"
  /\ UNCHANGED <<kind, outcome, blurs>>

StretchSaturation ==
  /\ pc = "converted"
  /\ hsv' = hsvStretchSaturation(hsv)
  /\ pc' = "saturationDone"
  /\ UNCHANGED <<kind, I, I2, call, outcome, blurs>>

StretchValue ==
  /\ pc = "saturationDone"
  /\ hsv' = hsvStretchValue(hsv)
  /\ pc' = "valueDone"
  /\ UNCHANGED <<kind, I, I2, call, outcome, blurs>>

\* The conversion back into the bitmap, and the return: the locals go.
ConvertBack ==
  /\ pc = "valueDone"
  /\ IF call.form = "copy"
       THEN I2' = hsvConvertBack(hsv, I2) /\ I' = I
       ELSE I' = hsvConvertBack(hsv, I) /\ I2' = I2
  /\ hsv' = NoLocals
  /\ outcome' = "ok"
  /\ pc' = "done"
  /\ UNCHANGED <<kind, call, blurs>>

Next ==
  \/ CallAdjust
  \/ CallAdjustCopy
  \/ CallAdjustRGBa
  \/ CallAdjustRGBaCopy
  \/ CallEqualizeHistogram
  \/ CallEqualizeHistogramCopy
  \/ CallEqualizeHistogramRGBa
  \/ CallEqualizeHistogramRGBaCopy
  \/ CallGammaCorrection
  \/ CallGammaCorrectionCopy
  \/ CallGammaCorrectionRGBa
  \/ CallGammaCorrectionRGBaCopy
  \/ CallStretchContrast
  \/ CallStretchContrastCopy
  \/ CallStretchContrastRGBa
  \/ CallStretchContrastRGBaCopy
  \/ CallStretchContrastHSV
  \/ CallStretchContrastHSVCopy
  \/ StretchSaturation
  \/ StretchValue
  \/ ConvertBack
  \/ CallUnsharpMask
  \/ CallUnsharpMaskCopy
  \/ CallUnsharpMaskRGBa
  \/ CallUnsharpMaskRGBaCopy

Spec == Init /\ [][Next]_vars


(***************************************************************************)
(* Properties.                                                             *)
(***************************************************************************)
\* The call of `op` in `form` has returned.
Returned(op, form) == pc = "done" /\ call.op = op /\ call.form = form

\* gamma <= 0
NotPositive(gamma) == gamma[1] <= 0

\* The images the grayscale equalizeHistogram can leave for the plane P.
Equalized(P) == {r.I : r \in equalizeHistogram(P)}

\* C1: for every image, grayscale or color, and every gamma <= 0, the
\* in-place gammaCorrection ends in the invalid-argument outcome and leaves
\* every sample of the image as it was.
C1_GammaRejectedInPlace ==
  (Returned("gammaCorrection", "inplace") /\ NotPositive(call.gamma))
    => (outcome = "badValue" /\ I = call.I)

C1_Witness ==
  /\ Returned("gammaCorrection", "inplace")
  /\ call.gamma = <<0, 1>>
  /\ kind = "color"
  /\ Len(call.I) = MaxColorPixels
  /\ outcome = "badValue"

\* C2: the copy form gammaCorrection(I1, I2, gamma) with gamma <= 0 ends in
\* the invalid-argument outcome with the output buffer I2 exactly as it was
\* before the call, whatever it held.
C2_GammaRejectedCopyKeepsOutput ==
  (Returned("gammaCorrection", "copy") /\ NotPositive(call.gamma))
    => (outcome = "badValue" /\ I2 = call.I2)

\* All samples of the non-empty image P are equal.
IsConstant(P) == Len(P) > 0 /\ \A k \in 1..Len(P) : P[k] = P[1]

\* C3: equalizeHistogram leaves a non-empty grayscale image of one value
\* unchanged, and the table entry of that value is computed without a
\* division by zero.
C3_ConstantImageUnchanged ==
  (Returned("equalizeHistogram", "inplace") /\ kind = "gray"
     /\ IsConstant(call.I))
    => (I = call.I /\ equalizeDivisor(call.I) # 0)

\* The color equalizeHistogram without HSV has returned on a non-empty image.
EqualizedRGBa ==
  /\ Returned("equalizeHistogram", "inplace")
  /\ kind = "color"
  /\ ~call.useHSV
  /\ Len(call.I) > 0

\* C4 as stated: without HSV the color equalizeHistogram equalizes each of
\* the four planes R, G, B and A as the grayscale equalizeHistogram does.
C4_FourPlanesEqualized ==
  EqualizedRGBa
    => /\ split(I).R \in Equalized(split(call.I).R)
       /\ split(I).G \in Equalized(split(call.I).G)
       /\ split(I).B \in Equalized(split(call.I).B)
       /\ split(I).A \in Equalized(split(call.I).A)

\* C4, amended: without HSV the color equalizeHistogram equalizes the three
\* planes R, G and B as the grayscale equalizeHistogram does, and leaves the
\* plane A as it was.
C4_ThreePlanesEqualizedAlphaKept ==
  EqualizedRGBa
    => /\ split(I).R \in Equalized(split(call.I).R)
       /\ split(I).G \in Equalized(split(call.I).G)
       /\ split(I).B \in Equalized(split(call.I).B)
       /\ split(I).A = split(call.I).A

C4_Witness ==
  /\ EqualizedRGBa
  /\ split(call.I).A \notin Equalized(split(call.I).A)
  /\ split(I).R # split(call.I).R
  /\ split(I).A = split(call.I).A

\* C5: on a non-empty grayscale image with extremes min < max,
\* stretchContrast replaces every sample x by 255 * (x - min) / (max - min),
\* the quotient truncated ({10,10,10,200} becomes {0,0,0,255}); with
\* min = max the image is unchanged ({77,77,77} stays).
C5_StretchContrastGray ==
  (Returned("stretchContrast", "inplace") /\ kind = "gray")
    => LET S == {call.I[k] : k \in 1..Len(call.I)}
           lo == Min(S)
           hi == Max(S)
       IN  /\ outcome = "ok"
           /\ hi > lo =>
                I = [k \in 1..Len(call.I) |->
                       (255 * (call.I[k] - lo)) \div (hi - lo)]
           /\ hi = lo => I = call.I
           /\ call.I = <<10, 10, 10, 200>> => I = <<0, 0, 0, 255>>
           /\ call.I = <<77, 77, 77>> => I = <<77, 77, 77>>

C5_Witness ==
  /\ Returned("stretchContrast", "inplace")
  /\ call.I = <<10, 77, 200>>
  /\ I = <<0, 89, 255>>


\* weight < 0 or weight >= 1
OutsideUnit(weight) == RLess(weight, RInt(0)) \/ ~RLess(weight, RInt(1))

\* C6: for every image, grayscale or color, every kernel size and every
\* weight outside [0, 1), the in-place unsharpMask raises no error, leaves
\* the image byte for byte as it was and computes no blur.
C6_UnsharpMaskOutsideUnitIsNoOp ==
  (Returned("unsharpMask", "inplace") /\ OutsideUnit(call.weight))
    => (outcome = "ok" /\ I = call.I /\ blurs = 0)

C6_Witness ==
  /\ Returned("unsharpMask", "inplace")
  /\ call.weight = <<0 - 1, 2>>
  /\ call.size = 3
  /\ Len(call.I) > 1
  /\ call.I[1] # call.I[2]
  /\ I = call.I

\* C7: for every color image, kernel size and weight, unsharpMask leaves the
\* alpha byte of every pixel as it was, in the buffer it works on.
C7_UnsharpMaskKeepsAlpha ==
  (pc = "done" /\ call.op = "unsharpMask" /\ kind = "color")
    => split(IF call.form = "copy" THEN I2 ELSE I).A = split(call.I).A

C7_Witness ==
  /\ Returned("unsharpMask", "inplace")
  /\ kind = "color"
  /\ call.weight = <<1, 2>>
  /\ call.size = 3
  /\ blurs = 3
  /\ split(I).R # split(call.I).R
  /\ \E k \in 1..Len(call.I) :
       unsharpValue(call.I[k].A, gaussianBlur(split(call.I).A, 3)[k],
                    call.weight) # call.I[k].A
  /\ split(I).A = split(call.I).A

\* The images the grayscale form of the call c can leave for the plane P.
GrayForm(c, P) ==
  LET R == CASE c.op = "adjust" -> adjust(P, c.alpha, c.beta)
             [] c.op = "gammaCorrection" -> gammaCorrection(P, c.gamma)
             [] c.op = "stretchContrast" -> stretchContrast(P)
  IN  {r.I : r \in R}

\* C8: on a non-empty color image the color forms of adjust,
\* gammaCorrection (gamma > 0) and stretchContrast give the interleaving of
\* the results of the grayscale form on the planes R, G, B and A.
C8_ColorFormIsGrayFormPerChannel ==
  (pc = "done" /\ kind = "color" /\ call.form = "inplace" /\ outcome = "ok"
     /\ call.op \in {"adjust", "gammaCorrection", "stretchContrast"}
     /\ Len(call.I) > 0)
    => LET p == split(call.I)
       IN  {I} = {merge(r, g, b, a) :
                    r \in GrayForm(call, p.R), g \in GrayForm(call, p.G),
                    b \in GrayForm(call, p.B), a \in GrayForm(call, p.A)}

C8_Witness ==
  /\ Returned("stretchContrast", "inplace")
  /\ kind = "color"
  /\ Len(call.I) > 1
  /\ getMinValue(split(call.I).R) # getMinValue(split(call.I).G)
  /\ getMaxValue(split(call.I).B) # getMaxValue(split(call.I).A)
  /\ split(I).A # split(call.I).A
  /\ split(I).R # split(call.I).R

\* The images the in-place form of the call c can leave when given X.
InPlaceForm(c, k, X) ==
  LET R ==
    CASE c.op = "adjust" ->
           IF k = "gray" THEN adjust(X, c.alpha, c.beta)
           ELSE adjustRGBa(X, c.alpha, c.beta)
      [] c.op = "equalizeHistogram" ->
           IF k = "gray" THEN equalizeHistogram(X)
           ELSE equalizeHistogramRGBa(X, c.useHSV)
      [] c.op = "gammaCorrection" ->
           IF k = "gray" THEN gammaCorrection(X, c.gamma)
           ELSE gammaCorrectionRGBa(X, c.gamma)
      [] c.op = "stretchContrast" ->
           IF k = "gray" THEN stretchContrast(X)
           ELSE stretchContrastRGBa(X)
      [] c.op = "stretchContrastHSV" -> stretchContrastHSV(X)
      [] c.op = "unsharpMask" ->
           IF k = "gray" THEN unsharpMask(X, c.size, c.weight)
           ELSE unsharpMaskRGBa(X, c.size, c.weight)
  IN  {r.I : r \in R}

\* C9: a successful call of a copy form leaves the input as it was and
\* leaves in the output an image the in-place form produces on the input,
\* whatever the output held; with the output aliasing the input, the image
\* is one the in-place form produces.
C9_CopyFormIsInPlaceOnCopy ==
  (pc = "done" /\ outcome = "ok" /\ call.form \in CopyForms)
    => IF call.form = "copy"
         THEN I = call.I /\ I2 \in InPlaceForm(call, kind, call.I)
         ELSE I \in InPlaceForm(call, kind, call.I)

C9_Witness ==
  /\ Returned("equalizeHistogram", "copy")
  /\ kind = "gray"
  /\ call.I = <<10, 200>>
  /\ call.I2 = <<200, 10, 77>>
  /\ I2 = <<0, 255>>
  /\ I = call.I

C9_WitnessAlias ==
  /\ Returned("stretchContrastHSV", "alias")
  /\ I # call.I

\* C10: between the two conversions of stretchContrastHSV the hue plane is,
\* sample for sample, the one the conversion from RGBa produced.
C10_HueUntouched ==
  (call.op = "stretchContrastHSV"
     /\ pc \in {"converted", "saturationDone", "valueDone"})
    => hsv.hueImage = [k \in 1..Len(Target) |-> RGBaToHSVPixel(Target[k]).h]

C10_Witness ==
  /\ call.op = "stretchContrastHSV"
  /\ pc = "valueDone"
  /\ hsv.saturationImage # hsvConvert(Target).saturationImage
  /\ hsv.valueImage # hsvConvert(Target).valueImage
  /\ \E k \in 1..Len(Target) : hsv.hueImage[k] # <<0, 1>>

\* C11: in the grayscale equalizeHistogram on a non-empty image, cdfMin is
\* the smallest positive value of the CDF over all 256 bins and minValue the
\* first bin reaching it, and every sample of the image, the value 0
\* included, lies in [minValue, maxValue], the range of the table entries
\* that are written before the table is applied.
C11_EverySampleHasAWrittenEntry ==
  (Returned("equalizeHistogram", "inplace") /\ kind = "gray"
     /\ Len(call.I) > 0)
    => LET cdf == cdfOf(call.I)
           s == scan(cdf)
           positive == {i \in Byte : cdf[i] > 0}
       IN  /\ s.cdfMin = Min({cdf[i] : i \in positive})
           /\ s.minValue = Min({i \in positive : cdf[i] = s.cdfMin})
           /\ \A k \in 1..Len(call.I) :
                s.minValue <= call.I[k] /\ call.I[k] <= s.maxValue

====
